---- MODULE Spec2Model ----
(***************************************************************************)
(* Model of orderbook/src/log.js: the hierarchical logger (Log), its level *)
(* methods, the built-in engines and the process-wide active engine.       *)
(*                                                                         *)
(* JavaScript strings are TLA+ strings; a JavaScript value that can be     *)
(* something else than a string is a tagged record, so that values of      *)
(* different types can be compared.                                        *)
(***************************************************************************)
EXTENDS Integers, Sequences, FiniteSets, TLC

VARIABLES
  env,      \* the globals the module looks at: window, console, navigator
  engine,   \* Log.engine, the active engine
  loggers,  \* the Log objects created so far; a Log's identity is its index
  last      \* the most recent call on the module and what it did

vars == <<env, engine, loggers, last>>

---------------------------------------------------------------------------
(* Bounds *)

\* Log objects alive at once, the root and the internal logger included.
MaxLoggers == 4

\* Lines of the deepest stack text.
MaxStackLines == 6

---------------------------------------------------------------------------
(* JavaScript values *)

Undefined == [t |-> "undefined", v |-> ""]
Str(s)    == [t |-> "string", v |-> s]
Arr(a)    == [t |-> "array", v |-> a]
Num7      == [t |-> "number", v |-> "7"]
ObjCode7  == [t |-> "object", v |-> "code7"]
Circular  == [t |-> "object", v |-> "circular"]

\* Truthiness of the values a namespace argument can be.
Truthy(x) ==
  CASE x.t = "undefined" -> FALSE
    [] x.t = "string"    -> x.v # ""
    [] OTHER             -> TRUE

\* Array.prototype.join on an array of strings.
RECURSIVE Join(_, _)
Join(a, sep) ==
  IF a = <<>> THEN ""
  ELSE IF Len(a) = 1 THEN a[1]
  ELSE a[1] \o sep \o Join(Tail(a), sep)

\* String(x) and the implicit conversion of `'' + x`.
JsString(x) ==
  CASE x.t = "undefined" -> "undefined"
    [] x.t = "string"    -> x.v
    [] x.t = "number"    -> x.v
    [] x.t = "array"     -> Join(x.v, ",")
    [] x.t = "object"    -> "[object Object]"

---------------------------------------------------------------------------
(* Log: constructor and sub *)

NoParent == 0

\* A faulty PrefixOf: the trailing separator is forgotten.
PrefixWithoutTrailing(namespace) == Join(namespace, ": ")

\* this._namespace.concat(['']).join(': ')
PrefixOf(namespace) == Join(namespace \o <<"">>, ": ")

\* function Log(namespace): the object `new Log(namespace)` builds.
Log(namespace) ==
  LET ns == IF ~Truthy(namespace) THEN <<>>
            ELSE IF namespace.t = "array" THEN namespace.v
            ELSE <<JsString(namespace)>>
  IN  [namespace |-> ns, prefix |-> PrefixOf(ns), parent |-> NoParent]

\* A faulty SubNamespace: the new segment is put in front.
SubNamespacePrepends(this, namespace) ==
  IF Truthy(namespace) /\ namespace.t = "string"
  THEN <<namespace.v>> \o this.namespace
  ELSE this.namespace

\* The namespace array Log.prototype.sub hands to the constructor.
SubNamespace(this, namespace) ==
  IF Truthy(namespace) /\ namespace.t = "string"
  THEN Append(this.namespace, namespace.v)
  ELSE this.namespace

\* Log.prototype._setParent
SetParent(logger, parentLogger) == [logger EXCEPT !.parent = parentLogger]

\* A faulty SubLogger: the parent is not set.
SubLoggerOrphan(this, l, namespace) ==
  Log(Arr(SubNamespace(this, namespace)))

\* Log.prototype.sub called on the Log object `this`, whose identity is l:
\* the new Log object.
SubLogger(this, l, namespace) ==
  SetParent(Log(Arr(SubNamespace(this, namespace))), l)

---------------------------------------------------------------------------
(* Values handed to setEngine *)

\* A value as setEngine sees it: its kind, and what its logObject property is
\* ("function", another value, or "undefined" when it has none).
Value(kind, logObject, name) ==
  [kind |-> kind, logObject |-> logObject, name |-> name]

\* typeof
TypeOf(x) == IF x.kind = "null" THEN "object" ELSE x.kind

\* The built-in engines, and an engine of the application.
basic       == Value("object", "function", "basic")
interactive == Value("object", "function", "interactive")
none        == Value("object", "function", "none")
custom      == Value("object", "function", "custom")

engines == {basic, interactive, none}

EngineArgs ==
  engines \cup
  { custom,
    Value("null", "undefined", "null"),
    Value("undefined", "undefined", "undefined"),
    Value("number", "undefined", "42"),
    Value("string", "undefined", "'basic'"),
    Value("boolean", "undefined", "true"),
    Value("object", "undefined", "{}"),
    Value("object", "string", "{logObject: 'x'}"),
    Value("function", "undefined", "function () {}"),
    Value("function", "function", "class with static logObject") }

\* A faulty SetEngineThrows: logObject is not checked.
SetEngineThrowsUnlessObject(x) ==
  IF TypeOf(x) # "object" THEN "AssertionError"
  ELSE IF x.kind = "null" THEN "TypeError"
  ELSE "none"

\* What Log.setEngine(engine) throws: "none" when it returns normally.
SetEngineThrows(x) ==
  IF TypeOf(x) # "object" THEN "AssertionError"
  ELSE IF x.kind = "null" THEN "TypeError"
  ELSE IF x.logObject # "function" THEN "AssertionError"
  ELSE "none"

---------------------------------------------------------------------------
(* The environment *)

Env(window, console, consoleLog, navigator) ==
  [window |-> window, console |-> console, consoleLog |-> consoleLog,
   navigator |-> navigator]

Envs ==
  { Env(FALSE, TRUE, TRUE, "absent"),    \* Node.js
    Env(TRUE, TRUE, TRUE, "other"),      \* a browser
    Env(TRUE, TRUE, TRUE, "MSIE"),       \* Internet Explorer
    Env(FALSE, TRUE, FALSE, "absent"),   \* a console without console.log
    Env(FALSE, FALSE, FALSE, "absent") } \* no console at all

\* The engine the module selects when it is loaded.
StartupEngine(e) ==
  IF e.window /\ e.console THEN interactive
  ELSE IF e.console /\ e.consoleLog THEN basic
  ELSE none

---------------------------------------------------------------------------
(* Formatting and output *)

\* new Date().toISOString()
Instants == {"2017-06-01T12:00:00.000Z"}

\* Index of the stack line getLogInfo reads (stack.split('\n')[4]).
FrameIndex == 4

\* Line i (from 1) of a stack text, as its leading white space and the rest.
StackLine(i) ==
  CASE i = 1 -> [space |-> "", text |-> "Error"]
    [] i = 2 -> [space |-> "    ", text |-> "at getLogInfo (log.js:77:17)"]
    [] i = 3 -> [space |-> "    ", text |-> "at Object.logObject (log.js:124:5)"]
    [] i = 4 -> [space |-> "    ", text |-> "at Log.<anonymous> (log.js:61:27)"]
    [] i = 5 -> [space |-> "    ", text |-> "at caller (app.js:10:7)"]
    [] OTHER -> [space |-> "    ", text |-> "at <anonymous>"]

\* new Error().stack: not a string (NoStack), or a text of n lines.
NoStack == [t |-> "undefined", lines |-> <<>>]
\* No stack was captured: getLogInfo was not called.
Unread  == [t |-> "unread", lines |-> <<>>]
StackText(n) == [t |-> "string", lines |-> [i \in 1..n |-> StackLine(i)]]

\* The stack texts tried: a bare "Error", one line short of the frame read,
\* exactly enough, and the deepest.
Stacks ==
  {NoStack} \cup
  {StackText(n) : n \in {1, FrameIndex, FrameIndex + 1, MaxStackLines}}

\* line.replace(/^\s+/, '')
TrimLeft(line) == line.text

\* JSON.stringify(arg, null, 2): [ok, value]; it throws on a circular object.
Stringify(arg) ==
  CASE arg = Circular       -> [ok |-> FALSE, value |-> Undefined]
    [] arg = ObjCode7       -> [ok |-> TRUE, value |-> Str("{\n  \"code\": 7\n}")]
    [] arg.t = "number"     -> [ok |-> TRUE, value |-> Str(arg.v)]
    [] arg.t = "string"     -> [ok |-> TRUE, value |-> Str("\"" \o arg.v \o "\"")]
    [] OTHER                -> [ok |-> TRUE, value |-> Undefined]

\* What a call of logObject does: what it throws ("none": it returns) and the
\* expression that throws it, what it writes, and the stack text getLogInfo
\* captured (Unread: it was not called).
Outcome(thrown, at, writes, stack) ==
  [thrown |-> thrown, at |-> at, writes |-> writes, stack |-> stack]

\* getLogInfo(message, args): [ok, items]; reading line FrameIndex of a
\* shorter stack text gives undefined, and undefined.replace throws.
getLogInfo(message, args, now, stack) ==
  IF stack.t = "string" /\ Len(stack.lines) < FrameIndex + 1
  THEN [ok |-> FALSE, items |-> <<>>]
  ELSE [ok |-> TRUE,
        items |-> << Str("[" \o now \o "]"),
                     Str(message),
                     Str("--"),
                     Str(IF stack.t = "string"
                         THEN TrimLeft(stack.lines[FrameIndex + 1]) ELSE ""),
                     Str("\n") >> \o args]

\* logMessage(logLevel, args): [thrown, at, writes]
logMessage(e, logLevel, args) ==
  LET write(stream) == [thrown |-> "none", at |-> "",
                        writes |-> <<[stream |-> stream, items |-> args]>>]
      throw(error, at) == [thrown |-> error, at |-> at, writes |-> <<>>]
  IN  IF logLevel \in {1, 2}
      THEN IF ~e.console THEN throw("ReferenceError", "console")
           ELSE IF ~e.consoleLog THEN throw("TypeError", "console.log")
           ELSE write("log")
      ELSE IF logLevel = 3
      THEN IF ~e.console THEN throw("ReferenceError", "console")
           ELSE write("warn")
      ELSE IF logLevel = 4
      THEN IF ~e.console THEN throw("ReferenceError", "console")
           ELSE write("error")
      ELSE [thrown |-> "none", at |-> "", writes |-> <<>>]

\* args_.map(function(arg) { return JSON.stringify(arg, null, 2) }):
\* [ok, value], the mapped array, or the failure of the first element on
\* which JSON.stringify throws.
RECURSIVE StringifyAll(_)
StringifyAll(args_) ==
  IF args_ = <<>> THEN [ok |-> TRUE, value |-> <<>>]
  ELSE LET head == Stringify(Head(args_))
           rest == StringifyAll(Tail(args_))
       IN  IF ~head.ok THEN [ok |-> FALSE, value |-> <<>>]
           ELSE IF ~rest.ok THEN rest
           ELSE [ok |-> TRUE, value |-> <<head.value>> \o rest.value]

\* The tail both engines share: logMessage(level, getLogInfo(message, args))
LogInfoMessage(e, level, message, args, now, stack) ==
  LET info == getLogInfo(message, args, now, stack)
      out  == logMessage(e, level, info.items)
  IN  IF ~info.ok
      THEN Outcome("TypeError", "getLogInfo", <<>>, stack)
      ELSE Outcome(out.thrown, out.at, out.writes, stack)

\* engines.basic.logObject
BasicLogObject(e, level, message, args_, now, stack) ==
  LET args == StringifyAll(args_)
  IN  IF ~args.ok THEN Outcome("TypeError", "JSON.stringify", <<>>, Unread)
      ELSE LogInfoMessage(e, level, message, args.value, now, stack)

\* engines.interactive.logObject: each element is stringified when the user
\* agent is MSIE and passed as it is otherwise; reading navigator where there
\* is none throws.
InteractiveLogObject(e, level, message, args_, now, stack) ==
  LET args == IF e.navigator = "MSIE" THEN StringifyAll(args_)
              ELSE [ok |-> TRUE, value |-> args_]
  IN  IF args_ # <<>> /\ e.navigator = "absent"
      THEN Outcome("ReferenceError", "navigator", <<>>, Unread)
      ELSE IF ~args.ok THEN Outcome("TypeError", "JSON.stringify", <<>>, Unread)
      ELSE LogInfoMessage(e, level, message, args.value, now, stack)

\* engines.none.logObject, and the logObject of the application's engine,
\* which the model takes to do nothing either.
NoneLogObject == Outcome("none", "", <<>>, Unread)

\* A faulty LogObject: engines.none logs as engines.basic does.
LogObjectNoneAsBasic(active, e, level, message, args_, now, stack) ==
  CASE active = interactive -> InteractiveLogObject(e, level, message, args_, now, stack)
    [] active = custom      -> NoneLogObject
    [] OTHER                -> BasicLogObject(e, level, message, args_, now, stack)

\* <active engine>.logObject(level, message, args_)
LogObject(active, e, level, message, args_, now, stack) ==
  CASE active = basic       -> BasicLogObject(e, level, message, args_, now, stack)
    [] active = interactive -> InteractiveLogObject(e, level, message, args_, now, stack)
    [] OTHER                -> NoneLogObject

---------------------------------------------------------------------------
(* The level methods *)

\* Log.prototype.debug, info, warn and error: the level each is made with.
Levels == [debug |-> 1, info |-> 2, warn |-> 3, error |-> 4]
Methods == DOMAIN Levels

\* A faulty MakeLevel: the prefix is not put before the message.
MakeLevelWithoutPrefix(level, this, args, active, e, now, stack) ==
  LET first   == IF args = <<>> THEN Undefined ELSE args[1]
      message == JsString(first)
      rest    == IF args = <<>> THEN <<>> ELSE Tail(args)
      out     == LogObject(active, e, level, message, rest, now, stack)
  IN  [calls  |-> <<[engine |-> active, level |-> level,
                     message |-> message, args |-> rest]>>,
       thrown |-> out.thrown,
       at     |-> out.at,
       writes |-> out.writes,
       stack  |-> out.stack]

\* The function Log.makeLevel(level) returns, called on `this` with the
\* arguments args: the one call of logObject it makes, and what that call does.
MakeLevel(level, this, args, active, e, now, stack) ==
  LET first   == IF args = <<>> THEN Undefined ELSE args[1]
      message == this.prefix \o JsString(first)
      rest    == IF args = <<>> THEN <<>> ELSE Tail(args)
      out     == LogObject(active, e, level, message, rest, now, stack)
  IN  [calls  |-> <<[engine |-> active, level |-> level,
                     message |-> message, args |-> rest]>>,
       thrown |-> out.thrown,
       at     |-> out.at,
       writes |-> out.writes,
       stack  |-> out.stack]

---------------------------------------------------------------------------
(* Inputs *)

\* Arguments of new Log(...)
LogArgs ==
  {Undefined, Str(""), Str("server"), Arr(<<>>), Arr(<<"server", "http">>)}

\* Arguments of sub
SubArgs == {Undefined, Str(""), Str("net"), Str("tcp"), Arr(<<"net">>)}

\* Argument lists of a level method
ArgLists ==
  { <<>>,
    <<Str("connected")>>,
    <<Str("failed"), Num7, ObjCode7>>,
    <<Str("failed"), Circular>> }

\* Who getEngine and setEngine are called on: Log itself or a Log object.
ClassLevel == 0
Receivers == {ClassLevel} \cup (1..Len(loggers))

\* The loggers an application sets up: log.sub('net'), then .sub('tcp') on it.
Scenario ==
  << [logger |-> 1, namespace |-> Str("net")],
     [logger |-> 3, namespace |-> Str("tcp")] >>

---------------------------------------------------------------------------
(* The state machine *)

root     == Log(Undefined)
internal == SubLogger(root, 1, Undefined)

\* The state once the module is loaded: the engine selected for the
\* environment, the root logger and the internal logger.
Init ==
  /\ env \in Envs
  /\ engine = StartupEngine(env)
  /\ loggers = <<root, internal>>
  /\ last = [op |-> "load"]

\* new Log(namespace)
New(namespace) ==
  /\ Len(loggers) < MaxLoggers
  /\ loggers' = Append(loggers, Log(namespace))
  /\ last' = [op |-> "new", arg |-> namespace, result |-> Len(loggers) + 1]
  /\ UNCHANGED <<env, engine>>

\* loggers[l].sub(namespace)
Sub(l, namespace) ==
  /\ Len(loggers) < MaxLoggers
  /\ loggers' = Append(loggers, SubLogger(loggers[l], l, namespace))
  /\ last' = [op |-> "sub", logger |-> l, arg |-> namespace,
              result |-> Len(loggers) + 1]
  /\ UNCHANGED <<env, engine>>

\* Log.getEngine() and loggers[via].getEngine()
GetEngine(via) ==
  /\ last' = [op |-> "getEngine", via |-> via, result |-> engine]
  /\ UNCHANGED <<env, engine, loggers>>

\* A faulty SetEngine: the engine is assigned before it is checked.
SetEngineBeforeChecks(via, x) ==
  /\ engine' = x
  /\ last' = [op |-> "setEngine", via |-> via, arg |-> x,
              thrown |-> SetEngineThrows(x), was |-> engine]
  /\ UNCHANGED <<env, loggers>>

\* Log.setEngine(x) and loggers[via].setEngine(x)
SetEngine(via, x) ==
  /\ engine' = IF SetEngineThrows(x) = "none" THEN x ELSE engine
  /\ last' = [op |-> "setEngine", via |-> via, arg |-> x,
              thrown |-> SetEngineThrows(x), was |-> engine]
  /\ UNCHANGED <<env, loggers>>

\* A faulty Level: the prefixed message is stored as the logger's prefix.
LevelKeepsMessage(l, method, args, now, stack) ==
  LET did == MakeLevel(Levels[method], loggers[l], args, engine, env, now, stack)
  IN  /\ last' = [op |-> "level", logger |-> l, method |-> method,
                  args |-> args, active |-> engine] @@ did
      /\ loggers' = [loggers EXCEPT ![l].prefix = did.calls[1].message]
      /\ UNCHANGED <<env, engine>>

\* loggers[l].debug(...args), .info, .warn, .error
Level(l, method, args, now, stack) ==
  LET did == MakeLevel(Levels[method], loggers[l], args, engine, env, now, stack)
  IN  /\ last' = [op |-> "level", logger |-> l, method |-> method,
                  args |-> args, active |-> engine] @@ did
      /\ UNCHANGED <<env, engine, loggers>>

\* The next sub call of the scenario
SetUp ==
  \E step \in DOMAIN Scenario :
    /\ Len(loggers) = step + 1
    /\ Sub(Scenario[step].logger, Scenario[step].namespace)

\* Logging: the application sets its loggers up, reads and replaces the
\* engine and logs, in any order.
Next ==
  \/ SetUp
  \/ \E via \in Receivers : GetEngine(via)
  \/ \E via \in Receivers, x \in EngineArgs : SetEngine(via, x)
  \/ \E l \in 1..Len(loggers), method \in Methods, args \in ArgLists,
        now \in Instants, stack \in Stacks :
       Level(l, method, args, now, stack)

Spec == Init /\ [][Next]_vars

\* The logger tree: any Log objects built with new Log and sub.
NextTree ==
  \/ \E namespace \in LogArgs : New(namespace)
  \/ \E l \in 1..Len(loggers), namespace \in SubArgs : Sub(l, namespace)

SpecTree == Init /\ [][NextTree]_vars

---------------------------------------------------------------------------
(* The logger tree: C4, C5, C10 (under SpecTree) *)

\* The call last made was L.sub(n) for a string n
SubOfString == last.op = "sub" /\ last.arg.t = "string"

\* C4 as stated: for every Logger L and every string n, the empty string
\* included, the segments of L.sub(n) are the segments of L followed by n.
C4_SubAppendsEveryString ==
  SubOfString =>
    loggers[last.result].namespace =
      Append(loggers[last.logger].namespace, last.arg.v)

\* C4, amended: for every Logger L and every non-empty string n the segments
\* of L.sub(n) are the segments of L followed by n, and those of
\* L.sub(n).sub(m), m non-empty too, are the segments of L followed by n then
\* m; L.sub("") has the segments of L.
C4_SubAppendsNonEmptyString ==
  SubOfString =>
    LET made  == loggers[last.result].namespace
        this  == loggers[last.logger]
        m     == last.arg.v
    IN  /\ m # "" => made = Append(this.namespace, m)
        /\ m = "" => made = this.namespace
        /\ \A n \in {"net", "tcp"} :
             ( /\ m # ""
               /\ this.parent # NoParent
               /\ this.namespace = Append(loggers[this.parent].namespace, n) )
             => made = loggers[this.parent].namespace \o <<n, m>>

\* C4's case: L.sub('net').sub('tcp') has been called on a Logger L.
C4_Witness ==
  /\ SubOfString
  /\ last.arg.v = "tcp"
  /\ loggers[last.logger].parent # NoParent
  /\ loggers[last.logger].namespace = <<"net">>
  /\ loggers[last.result].namespace = <<"net", "tcp">>

\* The segments joined with sep, built from the left.
RECURSIVE Joined(_, _)
Joined(S, sep) ==
  IF Len(S) = 1 THEN S[1]
  ELSE Joined(SubSeq(S, 1, Len(S) - 1), sep) \o sep \o S[Len(S)]

\* C5: the prefix of every Logger is determined by its segments S: S joined
\* with ": " and followed by one more ": " when S is not empty, the empty
\* string when it is.
C5_PrefixFromSegments ==
  \A i \in 1..Len(loggers) :
    LET S == loggers[i].namespace
    IN  loggers[i].prefix = IF S = <<>> THEN "" ELSE Joined(S, ": ") \o ": "

\* C5's case: a Logger with the segments ["server", "http"] exists, and so
\* does one made by a chain of two sub calls.
C5_Witness ==
  /\ \E i \in 1..Len(loggers) :
       /\ loggers[i].namespace = <<"server", "http">>
       /\ loggers[i].prefix = "server: http: "
  /\ \E i \in 1..Len(loggers) :
       /\ loggers[i].parent # NoParent
       /\ loggers[i].namespace # <<>>

\* C10: the Logger sub returns is a new object, not the one it was called on;
\* its parent is that caller; its segments are the caller's plus at most one;
\* sub() without an argument, as used for the internal logger, gives the
\* caller's segments; and no call changes the segments, the prefix or the
\* parent of a Logger that exists.
C10_Lineage ==
  /\ [](last.op = "sub" =>
          LET made == loggers[last.result]
              this == loggers[last.logger]
          IN  /\ last.result # last.logger
              /\ last.result = Len(loggers)
              /\ made.parent = last.logger
              /\ \/ made.namespace = this.namespace
                 \/ /\ Len(made.namespace) = Len(this.namespace) + 1
                    /\ SubSeq(made.namespace, 1, Len(this.namespace))
                         = this.namespace
              /\ last.arg = Undefined => made.namespace = this.namespace)
  /\ [](/\ loggers[2].parent = 1
        /\ loggers[2].namespace = loggers[1].namespace)
  /\ [][/\ Len(loggers') >= Len(loggers)
        /\ \A i \in 1..Len(loggers) : loggers'[i] = loggers[i]
        /\ last'.op = "sub" => last'.result \notin 1..Len(loggers)]_vars

\* C10's case: sub() without an argument has been called on a sub-logger
\* that has segments.
C10_Witness ==
  /\ last.op = "sub"
  /\ last.arg = Undefined
  /\ loggers[last.logger].parent # NoParent
  /\ loggers[last.logger].namespace # <<>>
  /\ loggers[last.result].namespace = loggers[last.logger].namespace

---------------------------------------------------------------------------
(* The engine registry: C1, C2 (under Spec) *)

\* What the claims call a primitive, an object, a callable logObject.
IsPrimitive(x) == x.kind \in {"undefined", "boolean", "number", "string"}
IsObject(x)    == x.kind \in {"object", "function"}
HasCallableLogObject(x) == x.logObject = "function"

\* C1 as stated: setEngine, in both forms, fails when engine is null, a
\* primitive or an object without a callable logObject, and returns normally
\* for any object that has a callable logObject.
C1_AcceptsEveryObjectWithLogObject ==
  last.op = "setEngine" =>
    LET x == last.arg
    IN  /\ (x.kind = "null" \/ IsPrimitive(x)) => last.thrown # "none"
        /\ (IsObject(x) /\ ~HasCallableLogObject(x)) => last.thrown # "none"
        /\ (IsObject(x) /\ HasCallableLogObject(x)) => last.thrown = "none"

\* C1, amended: setEngine, in both forms, fails when engine is null, a
\* primitive, a function, or an object without a callable logObject, and
\* returns normally for any object that is not a function and has a callable
\* logObject.
C1_AcceptsNonFunctionObjectWithLogObject ==
  last.op = "setEngine" =>
    LET x == last.arg
    IN  /\ (x.kind = "null" \/ IsPrimitive(x)) => last.thrown # "none"
        /\ x.kind = "function" => last.thrown # "none"
        /\ (IsObject(x) /\ ~HasCallableLogObject(x)) => last.thrown # "none"
        /\ (x.kind = "object" /\ HasCallableLogObject(x)) => last.thrown = "none"

\* C1's case: setEngine has been called on a Log object with an engine of the
\* application, and has returned.
C1_Witness ==
  /\ last.op = "setEngine"
  /\ last.via # ClassLevel
  /\ last.arg = custom
  /\ last.thrown = "none"

\* C2: there is one active engine. It starts as a built-in engine, changes
\* only in a setEngine call that returns, to the argument of that call, and
\* is left as it was by a setEngine call that throws; getEngine, in either
\* form and on any Log object, returns it; and it always is an object with a
\* callable logObject.
C2_OneSharedEngine ==
  /\ engine \in {basic, interactive, none}
  /\ [](/\ engine.kind = "object" /\ HasCallableLogObject(engine)
        /\ last.op = "getEngine" => last.result = engine
        /\ last.op = "setEngine" =>
             engine = IF last.thrown = "none" THEN last.arg ELSE last.was)
  /\ [][engine' # engine =>
          /\ last'.op = "setEngine"
          /\ last'.thrown = "none"
          /\ engine' = last'.arg]_vars

\* C2's case: getEngine called on the sub-logger net: tcp returns the engine
\* of the application, which is not the one the module started with.
C2_Witness ==
  /\ last.op = "getEngine"
  /\ last.via # ClassLevel
  /\ loggers[last.via].namespace = <<"net", "tcp">>
  /\ last.result = custom
  /\ StartupEngine(env) # custom

---------------------------------------------------------------------------
(* The level methods: C3, C6, C7, C8, C9 (under Spec) *)

\* The first argument of the level call last made
FirstArg == IF last.args = <<>> THEN Undefined ELSE last.args[1]

\* C3: while engines.none is the active engine, a level call on any Logger,
\* with any message and values, writes nothing and throws nothing.
C3_NoneIsSilent ==
  (last.op = "level" /\ last.active = none) =>
    /\ last.writes = <<>>
    /\ last.thrown = "none"

\* C3's case: error('failed', <a circular object>) has been called where the
\* module started with another engine and setEngine(engines.none) was called.
C3_Witness ==
  /\ last.op = "level"
  /\ last.active = none
  /\ StartupEngine(env) # none
  /\ last.method = "error"
  /\ last.args = <<Str("failed"), Circular>>

\* The numbers of the levels, as the claim gives them.
NumberOf(method) ==
  CASE method = "debug" -> 1
    [] method = "info"  -> 2
    [] method = "warn"  -> 3
    [] method = "error" -> 4

\* C6: a level call L.debug/info/warn/error(m, v1..vk) calls logObject once,
\* on the engine that is active when it is made, with the number of the
\* level, L's prefix followed by m, and v1..vk in order; net: tcp logging
\* "connected" passes "net: tcp: connected".
C6_OneDispatch ==
  last.op = "level" =>
    /\ Len(last.calls) = 1
    /\ last.calls[1].engine = last.active
    /\ last.calls[1].level = NumberOf(last.method)
    /\ last.args # <<>> =>
         /\ last.calls[1].message =
              loggers[last.logger].prefix \o last.args[1].v
         /\ last.calls[1].args = Tail(last.args)
    /\ ( /\ loggers[last.logger].namespace = <<"net", "tcp">>
         /\ last.args = <<Str("connected")>> )
       => last.calls[1].message = "net: tcp: connected"

\* C6's case: root.sub('net').sub('tcp') has logged "connected", and the
\* engine was not the one the module started with.
C6_Witness ==
  /\ last.op = "level"
  /\ loggers[last.logger].namespace = <<"net", "tcp">>
  /\ loggers[loggers[last.logger].parent].namespace = <<"net">>
  /\ last.args = <<Str("connected")>>
  /\ last.active # StartupEngine(env)

\* The console has what a call of this level writes with.
ConsoleUsable ==
  env.console /\ (last.method \in {"debug", "info"} => env.consoleLog)

\* The values of the call can be passed on by the active engine: none is
\* circular, and the interactive engine finds a navigator.
ValuesUsable ==
  /\ \A i \in 1..Len(last.args) : last.args[i] # Circular
  /\ (last.active = interactive /\ Len(last.args) > 1)
       => env.navigator # "absent"

\* The stream the claim gives each level.
StreamOf(method) ==
  CASE method \in {"debug", "info"} -> "log"
    [] method = "warn"              -> "warn"
    [] method = "error"             -> "error"

\* C7: with the basic or the interactive engine active, a level call makes
\* exactly one write, on the stream of its level (stated for the calls whose
\* console exists and whose values can be passed on).
C7_OneWriteOnTheStreamOfTheLevel ==
  ( /\ last.op = "level"
    /\ last.active \in {basic, interactive}
    /\ ConsoleUsable
    /\ ValuesUsable )
  => /\ Len(last.writes) = 1
     /\ last.writes[1].stream = StreamOf(last.method)

\* The stack text getLogInfo captured is no string, or has fewer lines than
\* the five the frame is looked for in.
StackInadequate ==
  /\ last.stack # Unread
  /\ last.stack.t # "string" \/ Len(last.stack.lines) < 5

\* C9: capturing the location never throws: when the stack is unavailable,
\* or has fewer than 5 lines, the location item is the empty string and the
\* level call completes with its write (stated for the calls whose console
\* exists).
C9_LocationIsBestEffort ==
  (last.op = "level" /\ StackInadequate /\ ConsoleUsable) =>
    /\ last.thrown = "none"
    /\ Len(last.writes) = 1
    /\ last.writes[1].items[4] = Str("")

\* C8: a level call, under any active engine, leaves every Logger's segments,
\* prefix and parent and the active engine as they were; the message it
\* dispatches is the Logger's prefix followed by its first argument, so that
\* a second call with the same arguments dispatches the same message.
C8_LevelCallsChangeNothing ==
  /\ [][last'.op = "level" => (loggers' = loggers /\ engine' = engine)]_vars
  /\ [](last.op = "level" =>
          last.calls[1].message =
            loggers[last.logger].prefix \o JsString(FirstArg))
  /\ [][( /\ last.op = "level" /\ last'.op = "level"
          /\ last'.logger = last.logger
          /\ last'.args = last.args )
        => last'.calls[1].message = last.calls[1].message]_vars

\* C8's case: info('connected') has been called on the sub-logger net after
\* the engine was replaced.
C8_Witness ==
  /\ last.op = "level"
  /\ last.method = "info"
  /\ last.args = <<Str("connected")>>
  /\ loggers[last.logger].prefix = "net: "
  /\ last.active # StartupEngine(env)
  /\ last.calls[1].message = "net: connected"

====
